---- MODULE Spec2Model ----
(***************************************************************************)
(* Pedigree utilities of msprime (src/msprime/pedigrees.py): the forward   *)
(* pedigree simulator sim_pedigree, the Pedigree class (construction,      *)
(* set_samples, get_times, check_times, the npy/txt serialisation) and the *)
(* PLINK .fam parser parse_fam.                                            *)
(*                                                                         *)
(* Array positions are 0-based as in the source; TLA+ sequences are        *)
(* 1-based, so row r of an array is element r + 1 of the sequence.         *)
(***************************************************************************)
EXTENDS Integers, Sequences, FiniteSets, TLC

VARIABLES
    \* sim_pedigree
    population_size, end_time, individuals, nodes, population, loop_time, sim_pc,
    \* Pedigree.get_times: its arguments and locals
    parents, time, climber_indices, t, gt_pc,
    \* Pedigree: the caller's arguments of the last call, the object and the
    \* outcome of the last call ("ok" or the exception raised)
    args, self, result,
    \* the .npy and text files written, and the Pedigree last read back
    npy_file, txt_file, loaded,
    \* parse_fam: the rows of the .fam file, the IndividualTable returned and
    \* the outcome of the call
    fam_file, tb, fam_result

simVars == <<population_size, end_time, individuals, nodes, population, loop_time, sim_pc>>
gtVars == <<parents, time, climber_indices, t, gt_pc>>
pedVars == <<args, self, result>>
ioVars == <<npy_file, txt_file, loaded>>
famVars == <<fam_file, tb, fam_result>>

vars == <<simVars, gtVars, pedVars, ioVars, famVars>>

\* ------------------------------------------------------------------ bounds
\* The simulator is run for every (population_size, end_time) that appends
\* at most MaxRows individual rows in total.
MaxRows == 6
\* get_times is run on every parent matrix of at most MaxInd individuals.
MaxInd == 3
\* and, where the run is followed to its end under fairness, of at most
\* MaxFairInd individuals.
MaxFairInd == 2
\* The climb loop of get_times is followed for at most MaxT iterations (on a
\* cycle it has no last iteration).
MaxT == 5
\* Pedigree(...) is called on arrays of at most MaxCtorN individuals, with
\* identifiers in MinId..MaxId and times in 0..MaxTime.
MaxCtorN == 2
MaxId == 2
MaxTime == 1
\* set_samples is called on pedigrees of at most MaxSampN individuals.
MaxSampN == 2
\* Pedigrees of at most MaxIoN individuals are saved and read back.
MaxIoN == 4
\* parse_fam reads files of at most MaxFamRows rows.
MaxFamRows == 2

\* ------------------------------------------------------- program constants
\* tskit.NULL, the sentinel parent.
NULL == -1
\* tskit.NODE_IS_SAMPLE
NODE_IS_SAMPLE == 1
\* The smallest identifier tried: one below the reserved 0.
MinId == -1

\* ------------------------------------------------------------------ helpers
Range(s) == {s[k] : k \in 1..Len(s)}

\* Python's None and a present value.
None == <<>>
Some(x) == <<x>>
IsNone(o) == Len(o) = 0
Get(o) == o[1]

\* Every parent-index matrix of n individuals: entries in [0, n) or -1.
ParentMatrices(n) == [1..n -> [1..2 -> {NULL} \cup (0..(n - 1))]]

\* parents.ravel(), as the set of its values
Ravel(pm) == {pm[i][k] : i \in 1..Len(pm), k \in 1..2}

\* ProbandIndices with only the first parent column removed.
ProbandIndicesFirstColumn(n, pm) == (0..(n - 1)) \ {pm[i][1] : i \in 1..Len(pm)}

\* set(range(len(individual))).difference(parents.ravel())
ProbandIndices(n, pm) == (0..(n - 1)) \ Ravel(pm)

\* ------------------------------------------------- the parent relation
\* p is a parent of c.
IsParent(pm, c, p) == p >= 0 /\ \E k \in 1..2 : pm[c + 1][k] = p

ParentsOfAll(pm, set) == {p \in 0..(Len(pm) - 1) : \E c \in set : IsParent(pm, c, p)}

RECURSIVE ClimbAll(_, _)
ClimbAll(pm, reached) ==
    IF ParentsOfAll(pm, reached) \subseteq reached THEN reached
    ELSE ClimbAll(pm, reached \cup ParentsOfAll(pm, reached))

\* The ancestors of idx: its parents, their parents, ...
Ancestors(pm, idx) == ClimbAll(pm, ParentsOfAll(pm, {idx}))

\* Some individual is its own ancestor (a self-parent included).
HasCycle(pm) == \E idx \in 0..(Len(pm) - 1) : idx \in Ancestors(pm, idx)

\* The individuals that are nobody's parent.
Childless(pm) == {i \in 0..(Len(pm) - 1) : \A c \in 0..(Len(pm) - 1) : ~IsParent(pm, c, i)}

\* Some individual that is a proband or above one is its own ancestor.
CycleAboveProband(pm) ==
    \E p \in Childless(pm) : \E a \in Ancestors(pm, p) : a \in Ancestors(pm, a)

\* The lengths of the paths from a proband up to idx (acyclic pm only).
RECURSIVE PathLengths(_, _)
PathLengths(pm, idx) ==
    LET children == {c \in 0..(Len(pm) - 1) : IsParent(pm, c, idx)} IN
    IF children = {} THEN {0}
    ELSE UNION {{l + 1 : l \in PathLengths(pm, c)} : c \in children}

MaxOf(set) == CHOOSE m \in set : \A x \in set : x <= m

\* ========================================================= Pedigree.get_times
\* RaiseTimes keeping the time of the first visit (the shortest path).
RaiseTimesFirstVisit(tm, climbers, lvl) ==
    [i \in 1..Len(tm) |-> IF (i - 1) \in climbers /\ tm[i] = 0 THEN lvl ELSE tm[i]]

\* for c_idx in climber_indices: if time[c_idx] < t: time[c_idx] = t
RaiseTimes(tm, climbers, lvl) ==
    [i \in 1..Len(tm) |-> IF (i - 1) \in climbers /\ tm[i] < lvl THEN lvl ELSE tm[i]]

\* next_parents = [p for p in parents[c_idx] if p >= 0]
NextParents(pm, c_idx) == {pm[c_idx + 1][k] : k \in 1..2} \cap {p \in Ravel(pm) : p >= 0}

\* NextClimbers with the old frontier kept in the new one.
NextClimbersKeepOld(pm, climbers) ==
    climbers \cup UNION {NextParents(pm, c_idx) : c_idx \in climbers}

\* next_climbers.extend(next_parents) over the frontier;
\* climber_indices = list(set(next_climbers))
NextClimbers(pm, climbers) == UNION {NextParents(pm, c_idx) : c_idx \in climbers}

\* The whole of the climb, as get_times runs it: the returned time array.
RECURSIVE Climb(_, _, _, _)
Climb(pm, tm, climbers, lvl) ==
    IF Cardinality(climbers) > 0
    THEN Climb(pm, RaiseTimes(tm, climbers, lvl), NextClimbers(pm, climbers), lvl + 1)
    ELSE tm

\* get_times(individual, parents=parents)
GetTimes(pm) == Climb(pm, [i \in 1..Len(pm) |-> 0], ProbandIndices(Len(pm), pm), 0)

\* Pedigree.check_times: TRUE when no parent edge raises
CheckTimesOk(pm, tm) ==
    \A i \in 1..Len(pm) : \A k \in 1..2 :
        pm[i][k] >= 0 => ~(tm[i] >= tm[pm[i][k] + 1])

\* get_times(individual, parents=parents) on a parent matrix of at most maxn
\* individuals: the state at the loop head.
GtInit(maxn) ==
    /\ \E n \in 0..maxn : parents \in ParentMatrices(n)
    /\ time = [i \in 1..Len(parents) |-> 0]
    /\ climber_indices = ProbandIndices(Len(parents), parents)
    /\ t = 0
    /\ gt_pc = "while"

\* One iteration of "while len(climber_indices) > 0".
ClimbIteration ==
    /\ gt_pc = "while"
    /\ Cardinality(climber_indices) > 0
    /\ t < MaxT
    /\ time' = RaiseTimes(time, climber_indices, t)
    /\ climber_indices' = NextClimbers(parents, climber_indices)
    /\ t' = t + 1
    /\ UNCHANGED <<parents, gt_pc>>
    /\ UNCHANGED <<simVars, pedVars, ioVars, famVars>>

\* The loop exits; with check=True check_times raises on a bad edge,
\* otherwise time is returned.
ClimbReturn ==
    /\ gt_pc = "while"
    /\ Cardinality(climber_indices) = 0
    /\ \E check \in BOOLEAN :
         gt_pc' = IF check /\ ~CheckTimesOk(parents, time) THEN "ValueError" ELSE "done"
    /\ UNCHANGED <<parents, time, climber_indices, t>>
    /\ UNCHANGED <<simVars, pedVars, ioVars, famVars>>

GtNext == ClimbIteration \/ ClimbReturn

\* =========================================================== Pedigree.__init__
\* parents.shape[1]
Shape1(pm) == IF Len(pm) = 0 THEN 2 ELSE Len(pm[1])

\* np.min(individual): raises ValueError on an empty array
MinOf(ind) == CHOOSE m \in Range(ind) : \A x \in Range(ind) : m <= x

\* len(np.array(is_sample)[np.where(is_sample == 1)])
CountOnes(flags) == Cardinality({i \in 1..Len(flags) : flags[i] = 1})

\* The exception __init__ raises on these arguments, or "ok".
InitOutcome(a) ==
    IF a.ploidy # 2 THEN "NotImplementedError"
    ELSE IF ~IsNone(a.sex) THEN "NotImplementedError"
    ELSE IF Shape1(a.parents) # a.ploidy THEN "ValueError"
    ELSE IF Len(a.individual) = 0 THEN "ValueError"
    ELSE IF MinOf(a.individual) <= 0 THEN "ValueError"
    ELSE "ok"

\* The attributes __init__ sets. The astype(np.int32) and astype(np.float64)
\* conversions keep every value used here (all far inside the int32 range).
InitObject(a) ==
    [individual |-> a.individual,
     parents |-> a.parents,
     time |-> a.time,
     is_sample |-> a.is_sample,
     num_samples |-> IF IsNone(a.is_sample) THEN None
                     ELSE Some(CountOnes(Get(a.is_sample)))]

\* The arrays a caller may pass: n identifiers, an n x 2 parent-index matrix
\* (or one of another width), n times, optional sample flags.
CtorArgs(n) ==
    [individual : [1..n -> MinId..MaxId],
     parents : ParentMatrices(n) \cup {[i \in 1..n |-> <<NULL, NULL, NULL>>]},
     time : [1..n -> 0..MaxTime],
     is_sample : {None} \cup {Some(f) : f \in [1..n -> {0, 1}]},
     sex : {None, Some("sexes")},
     ploidy : {2, 3}]

CtorInit ==
    /\ \E n \in 0..MaxCtorN : args \in CtorArgs(n)
    /\ self = None
    /\ result = "none"

\* Pedigree(individual, parents, time, is_sample, sex, ploidy)
PedigreeInit ==
    /\ result = "none"
    /\ result' = InitOutcome(args)
    /\ self' = IF InitOutcome(args) = "ok" THEN Some(InitObject(args)) ELSE None
    /\ UNCHANGED args
    /\ UNCHANGED <<simVars, gtVars, ioVars, famVars>>

\* Pedigree.check_times(individual, parents, time) on the same arrays
CheckTimes ==
    /\ result \in {"none", "ok"}
    /\ Shape1(args.parents) = 2
    /\ result' = IF CheckTimesOk(args.parents, args.time)
                 THEN "check_ok" ELSE "check_ValueError"
    /\ UNCHANGED <<args, self>>
    /\ UNCHANGED <<simVars, gtVars, ioVars, famVars>>

CtorNext == PedigreeInit \/ CheckTimes

\* ======================================================== Pedigree.set_samples
\* np.zeros((self.num_individuals), dtype=np.uint32)
ZeroFlags(n) == [i \in 1..n |-> 0]

\* self.is_sample[sample_indices] = 1
SetFlags(flags, sample_indices) ==
    [i \in 1..Len(flags) |-> IF (i - 1) \in sample_indices THEN 1 ELSE flags[i]]

\* The three checks made before anything is assigned: the exception, or "ok".
SamplesArgCheck(a) ==
    IF a.probands_only # TRUE THEN "NotImplementedError"
    ELSE IF IsNone(a.num_samples) /\ IsNone(a.sample_IDs) THEN "ValueError"
    ELSE IF ~IsNone(a.num_samples) /\ ~IsNone(a.sample_IDs) THEN "ValueError"
    ELSE "ok"

\* self.num_samples = num_samples, or len(sample_IDs)
RequestedSamples(a) ==
    IF ~IsNone(a.num_samples) THEN Get(a.num_samples) ELSE Len(Get(a.sample_IDs))

\* The values sample_indices can take: any num_samples distinct probands
\* (np.random.choice(..., replace=False)), or the probands whose identifier
\* is in set(sample_IDs). (A call that raises before sample_indices is
\* assigned has the one value {}.)
SampleIndices(obj, a, proband_indices) ==
    IF SamplesArgCheck(a) # "ok"
       \/ (~IsNone(a.num_samples) /\ Get(a.num_samples) > Cardinality(proband_indices))
    THEN {{}}
    ELSE IF ~IsNone(a.num_samples)
    THEN {c \in SUBSET proband_indices : Cardinality(c) = Get(a.num_samples)}
    ELSE {{i \in proband_indices : obj.individual[i + 1] \in Range(Get(a.sample_IDs))}}

\* Assigned without the reset of is_sample.
AssignedNoReset(obj, a) == [obj EXCEPT !.num_samples = Some(RequestedSamples(a))]

\* The object once is_sample and num_samples have been assigned.
Assigned(obj, a) ==
    [obj EXCEPT !.is_sample = Some(ZeroFlags(Len(obj.individual))),
                !.num_samples = Some(RequestedSamples(a))]

\* The object after the call and the call's outcome, for one value of
\* sample_indices.
SetSamplesEffect(obj, a, proband_indices, sample_indices) ==
    IF SamplesArgCheck(a) # "ok"
    THEN [self |-> obj, result |-> SamplesArgCheck(a)]
    ELSE IF ~IsNone(a.num_samples) /\ Get(a.num_samples) > Cardinality(proband_indices)
    THEN [self |-> Assigned(obj, a), result |-> "ValueError"]
    ELSE IF Cardinality(sample_indices) # RequestedSamples(a)
    THEN [self |-> Assigned(obj, a), result |-> "ValueError"]
    ELSE [self |-> [Assigned(obj, a) EXCEPT
                       !.is_sample = Some(SetFlags(ZeroFlags(Len(obj.individual)),
                                                   sample_indices))],
          result |-> "ok"]

\* The arguments a caller may pass to set_samples on a pedigree of n
\* individuals: a count up to n + 1 alone, a list of at most two identifiers
\* alone (set(sample_IDs) makes their order irrelevant), neither, or both;
\* and probands_only=False with a count or with neither.
SampleArgs(n) ==
    LET counts == {Some(c) : c \in 0..(n + 1)}
        lists == {Some(<<>>)} \cup {Some(<<x>>) : x \in 1..(n + 1)}
                 \cup {Some(<<x, y>>) : x \in 1..(n + 1), y \in 1..(n + 1)}
    IN  [num_samples : counts \cup {None}, sample_IDs : {None}, probands_only : BOOLEAN]
        \cup {a \in [num_samples : {None}, sample_IDs : lists, probands_only : {TRUE}] :
                 Len(Get(a.sample_IDs)) = 2 => Get(a.sample_IDs)[1] <= Get(a.sample_IDs)[2]}
        \cup [num_samples : {Some(0), Some(1)}, sample_IDs : {Some(<<>>), Some(<<1>>)},
              probands_only : {TRUE}]

\* The acyclic parent matrices of n individuals.
AcyclicParentMatrices(n) == {pm \in ParentMatrices(n) : ~HasCycle(pm)}

\* The identifier arrays used: 1..n ascending and descending.
IdArrays(n) == {[i \in 1..n |-> i], [i \in 1..n |-> n + 1 - i]}

\* A pedigree built by Pedigree(individual, parents, time) with the times
\* get_times infers; set_samples has not been called.
SamplesInit ==
    /\ \E n \in 1..MaxSampN : \E ind \in IdArrays(n) : \E pm \in AcyclicParentMatrices(n) :
         self = Some([individual |-> ind, parents |-> pm, time |-> GetTimes(pm),
                      is_sample |-> None, num_samples |-> None])
    /\ args = [num_samples |-> None, sample_IDs |-> None, probands_only |-> TRUE]
    /\ result = "none"

\* self.set_samples(num_samples, sample_IDs, probands_only)
SetSamples ==
    /\ \E a \in SampleArgs(Len(Get(self).individual)) :
         LET obj == Get(self)
             proband_indices == ProbandIndices(Len(obj.individual), obj.parents)
         IN \E sample_indices \in SampleIndices(obj, a, proband_indices) :
              LET e == SetSamplesEffect(obj, a, proband_indices, sample_indices) IN
              /\ args' = a
              /\ self' = Some(e.self)
              /\ result' = e.result
    /\ UNCHANGED <<simVars, gtVars, ioVars, famVars>>

SamplesNext == SetSamples

\* ============================================== Pedigree: npy and text files
\* A float64 is held as its number of halves (3 is 1.5), so that the
\* conversions between integers, floats and text are not the identity.
IntToFloat(n) == 2 * n

\* x.astype(int) of a float: truncation towards zero
FloatToInt(h) == IF h >= 0 THEN h \div 2 ELSE -((-h) \div 2)

\* str(x) of a float: sign, integer part and fraction digit ("1.0", "1.5")
FloatToStr(h) ==
    [neg |-> h < 0,
     whole |-> (IF h < 0 THEN -h ELSE h) \div 2,
     frac |-> IF (IF h < 0 THEN -h ELSE h) % 2 = 1 THEN "5" ELSE "0"]

\* np.genfromtxt(..., dtype=float) of one field
StrToFloat(tok) ==
    (IF tok.neg THEN -1 ELSE 1) * (2 * tok.whole + (IF tok.frac = "5" THEN 1 ELSE 0))

\* Pedigree.default_format(): the 0-based column of each field
ColIndividual == 0
ColFather == 1
ColMother == 2
ColTime == 3

\* Pedigree.build_array: one float row per individual
BuildArray(obj) ==
    [i \in 1..Len(obj.individual) |->
        [c \in 1..(ColTime + 1) |->
            IF c = ColIndividual + 1 THEN IntToFloat(obj.individual[i])
            ELSE IF c = ColFather + 1 THEN IntToFloat(obj.parents[i][1])
            ELSE IF c = ColMother + 1 THEN IntToFloat(obj.parents[i][2])
            ELSE obj.time[i]]]

\* Pedigree.parent_index_to_ID
ParentIndexToID(ind, pm) ==
    [i \in 1..Len(pm) |->
        [j \in 1..2 |-> IF pm[i][j] >= 0 THEN ind[pm[i][j] + 1] ELSE 0]]

\* ind_to_index_dict = dict(zip(individual, range(n_inds))): a later
\* occurrence of an identifier replaces an earlier one
IndToIndex(ind, id) ==
    LET at == {i \in 1..Len(ind) : ind[i] = id} IN
    (CHOOSE m \in at : \A x \in at : x <= m) - 1

\* Pedigree.parent_ID_to_index: the exception raised, or "ok"
ParentIDToIndexOutcome(ind, parent_IDs) ==
    IF 0 \in Range(ind) THEN "ValueError"
    ELSE IF \E i \in 1..Len(parent_IDs) : \E j \in 1..2 :
              parent_IDs[i][j] \notin Range(ind) \cup {0}
    THEN "KeyError"
    ELSE "ok"

\* Pedigree.parent_ID_to_index: the index matrix
ParentIDToIndex(ind, parent_IDs) ==
    [i \in 1..Len(parent_IDs) |->
        [j \in 1..2 |-> IF parent_IDs[i][j] = 0 THEN -1
                         ELSE IndToIndex(ind, parent_IDs[i][j])]]

\* save_txt, "pedarray = pedarray[cols_to_save]": the list indexes the
\* first axis, the rows 0, 1, 2 and 3; IndexError when there is no row 3.
ColsToSave == <<ColIndividual, ColFather, ColMother, ColTime>>

RowsSelected(pedarray) == [k \in 1..Len(ColsToSave) |-> pedarray[ColsToSave[k] + 1]]

\* save_txt: the exception raised, or "ok". pedarray[:, cols["parents"]] =
\* parent_IDs needs as many rows of parent_IDs as were selected.
SaveTxtOutcome(obj) ==
    IF \E k \in 1..Len(ColsToSave) : ColsToSave[k] >= Len(obj.individual)
    THEN "IndexError"
    ELSE IF Len(obj.individual) # Len(ColsToSave) /\ Len(obj.individual) # 1
    THEN "ValueError"
    ELSE "ok"

\* save_txt: the data lines written after the header, one per row of
\* pedarray, each field str(x)
SaveTxtLines(obj) ==
    LET pedarray == RowsSelected(BuildArray(obj))
        parent_IDs == ParentIndexToID(obj.individual, obj.parents)
    IN  [r \in 1..Len(pedarray) |->
            [c \in 1..Len(pedarray[r]) |->
                FloatToStr(IF c = ColFather + 1 THEN IntToFloat(parent_IDs[r][1])
                           ELSE IF c = ColMother + 1 THEN IntToFloat(parent_IDs[r][2])
                           ELSE pedarray[r][c])]]

\* read_npy: individual, parents and time as passed to Pedigree(...)
ReadNpyArgs(pedarray) ==
    [individual |-> [i \in 1..Len(pedarray) |-> pedarray[i][ColIndividual + 1]],
     parents |-> [i \in 1..Len(pedarray) |->
                    <<FloatToInt(pedarray[i][ColFather + 1]),
                      FloatToInt(pedarray[i][ColMother + 1])>>],
     time |-> [i \in 1..Len(pedarray) |-> pedarray[i][ColTime + 1]]]

\* read_npy: the exception raised, or "ok" (np.min(individual) <= 0 is
\* tested on the float column)
ReadNpyOutcome(pedarray) ==
    IF Len(pedarray) = 0 THEN "ValueError"
    ELSE IF \E i \in 1..Len(pedarray) : pedarray[i][ColIndividual + 1] <= 0
    THEN "ValueError"
    ELSE "ok"

\* read_npy: the Pedigree built (individual.astype(np.int32))
ReadNpyObject(pedarray) ==
    LET a == ReadNpyArgs(pedarray) IN
    [individual |-> [i \in 1..Len(pedarray) |-> FloatToInt(a.individual[i])],
     parents |-> a.parents,
     time |-> a.time,
     is_sample |-> None,
     num_samples |-> None]

\* read_txt: data = np.genfromtxt(pedfile, skip_header=1, usecols=usecols)
GenFromTxt(lines) == [r \in 1..Len(lines) |-> [c \in 1..Len(lines[r]) |-> StrToFloat(lines[r][c])]]

\* read_txt: individual and parent_IDs
TxtIndividual(data) == [i \in 1..Len(data) |-> FloatToInt(data[i][ColIndividual + 1])]

TxtParentIDs(data) ==
    [i \in 1..Len(data) |->
        <<FloatToInt(data[i][ColFather + 1]), FloatToInt(data[i][ColMother + 1])>>]

\* read_txt: the exception raised, or "ok". One data line gives a 1-D array,
\* which data[:, 0] cannot index.
ReadTxtOutcome(lines, time_col, sex_col) ==
    IF ~IsNone(sex_col) THEN "NotImplementedError"
    ELSE IF Len(lines) < 2 THEN "IndexError"
    ELSE LET data == GenFromTxt(lines) IN
         IF ParentIDToIndexOutcome(TxtIndividual(data), TxtParentIDs(data)) # "ok"
         THEN ParentIDToIndexOutcome(TxtIndividual(data), TxtParentIDs(data))
         ELSE IF \E i \in 1..Len(data) : TxtIndividual(data)[i] <= 0 THEN "ValueError"
         ELSE "ok"

\* read_txt: the Pedigree built; the times are read from column time_col,
\* or inferred by get_times when time_col is None (the default)
ReadTxtObject(lines, time_col) ==
    LET data == GenFromTxt(lines)
        ind == TxtIndividual(data)
        pm == ParentIDToIndex(ind, TxtParentIDs(data))
    IN  [individual |-> ind,
         parents |-> pm,
         time |-> IF IsNone(time_col)
                  THEN [i \in 1..Len(pm) |-> IntToFloat(GetTimes(pm)[i])]
                  ELSE [i \in 1..Len(data) |-> data[i][Get(time_col) + 1]],
         is_sample |-> None,
         num_samples |-> None]

\* The parent matrices whose rows list children before their parents.
OrderedParentMatrices(n) ==
    {pm \in ParentMatrices(n) :
        \A i \in 1..n : \A k \in 1..2 : pm[i][k] = NULL \/ pm[i][k] > i - 1}

\* Times that respect the parent order: the inferred times, as floats, and
\* one and a half times them.
TimeArrays(pm) ==
    {[i \in 1..Len(pm) |-> IntToFloat(GetTimes(pm)[i])],
     [i \in 1..Len(pm) |-> 3 * GetTimes(pm)[i]]}

\* A valid pedigree; nothing saved or read yet.
IoInit ==
    /\ \E n \in 1..MaxIoN : \E ind \in IdArrays(n) : \E pm \in OrderedParentMatrices(n) :
         \E tm \in TimeArrays(pm) :
             self = Some([individual |-> ind, parents |-> pm, time |-> tm,
                          is_sample |-> None, num_samples |-> None])
    /\ args = [op |-> "none", time_col |-> None, sex_col |-> None]
    /\ result = "none"
    /\ npy_file = None
    /\ txt_file = None
    /\ loaded = None

NoArgs(op) == [op |-> op, time_col |-> None, sex_col |-> None]

\* self.save_npy(fname)
SaveNpy ==
    /\ args' = NoArgs("save_npy")
    /\ npy_file' = Some(BuildArray(Get(self)))
    /\ result' = "ok"
    /\ UNCHANGED <<self, txt_file, loaded>>
    /\ UNCHANGED <<simVars, gtVars, famVars>>

\* Pedigree.read_npy(fname) on the file written
ReadNpy ==
    /\ ~IsNone(npy_file)
    /\ args' = NoArgs("read_npy")
    /\ result' = ReadNpyOutcome(Get(npy_file))
    /\ loaded' = IF ReadNpyOutcome(Get(npy_file)) = "ok"
                 THEN Some(ReadNpyObject(Get(npy_file))) ELSE loaded
    /\ UNCHANGED <<self, npy_file, txt_file>>
    /\ UNCHANGED <<simVars, gtVars, famVars>>

\* self.save_txt(fname): the file is opened only after pedarray is ready
SaveTxt ==
    /\ args' = NoArgs("save_txt")
    /\ result' = SaveTxtOutcome(Get(self))
    /\ txt_file' = IF SaveTxtOutcome(Get(self)) = "ok"
                   THEN Some(SaveTxtLines(Get(self))) ELSE txt_file
    /\ UNCHANGED <<self, npy_file, loaded>>
    /\ UNCHANGED <<simVars, gtVars, famVars>>

\* Pedigree.read_txt(fname, time_col, sex_col) on the file written
ReadTxt ==
    /\ ~IsNone(txt_file)
    /\ \E time_col \in {None, Some(ColTime)} : \E sex_col \in {None, Some(4)} :
         /\ args' = [op |-> "read_txt", time_col |-> time_col, sex_col |-> sex_col]
         /\ result' = ReadTxtOutcome(Get(txt_file), time_col, sex_col)
         /\ loaded' = IF ReadTxtOutcome(Get(txt_file), time_col, sex_col) = "ok"
                      THEN Some(ReadTxtObject(Get(txt_file), time_col)) ELSE loaded
    /\ UNCHANGED <<self, npy_file, txt_file>>
    /\ UNCHANGED <<simVars, gtVars, famVars>>

IoNext == SaveNpy \/ ReadNpy \/ SaveTxt \/ ReadTxt

\* ==================================================================== parse_fam
\* FamKey without the family id.
FamKeyIidOnly(fid, iid) == <<iid>>

\* plink_id = f"{plink_fid} {plink_iid}": the fields hold no blank, so the
\* string is the pair.
FamKey(fid, iid) == <<fid, iid>>

\* The rows a .fam file may hold: FID, IID, PAT, MAT, SEX as strings.
FamRows ==
    [fid : {"F1", "F2"}, iid : {"1", "2"}, pat : {"0", "1", "2"},
     mat : {"0", "1", "2"}, sex : {"1", "3"}]

\* int(sex)
IntOfSex(str) == IF str = "0" THEN 0 ELSE IF str = "1" THEN 1 ELSE IF str = "2" THEN 2 ELSE 3

\* The first loop: "if plink_id in id_map" is true at some row.
DuplicatePlinkID(rows) ==
    \E i \in 1..Len(rows) : \E j \in 1..Len(rows) :
        i < j /\ FamKey(rows[i].fid, rows[i].iid) = FamKey(rows[j].fid, rows[j].iid)

\* pat_id = f"{plink_fid} {pat}" if pat != "0" else pat; "in id_map"
InIdMap(rows, fid, parent) ==
    parent = "0" \/ \E j \in 1..Len(rows) : FamKey(rows[j].fid, rows[j].iid) = FamKey(fid, parent)

\* id_map[pat_id]: -1 for "0", else the tskit_id enumerate gave the row
IdMap(rows, fid, parent) ==
    IF parent = "0" THEN -1
    ELSE (CHOOSE j \in 1..Len(rows) :
              FamKey(rows[j].fid, rows[j].iid) = FamKey(fid, parent)) - 1

\* The second loop at one row: the exception raised there, or "ok".
RowOutcome(rows, row) ==
    IF IntOfSex(row.sex) \notin 0..2 THEN "ValueError"
    ELSE IF ~InIdMap(rows, row.fid, row.pat) THEN "KeyError"
    ELSE IF ~InIdMap(rows, row.fid, row.mat) THEN "KeyError"
    ELSE "ok"

\* The outcome of both loops: the first exception raised, or "ok".
LoopsOutcome(rows) ==
    IF DuplicatePlinkID(rows) THEN "ValueError"
    ELSE IF \E i \in 1..Len(rows) : RowOutcome(rows, rows[i]) # "ok"
    THEN LET first == CHOOSE i \in 1..Len(rows) :
                          /\ RowOutcome(rows, rows[i]) # "ok"
                          /\ \A j \in 1..(i - 1) : RowOutcome(rows, rows[j]) = "ok"
         IN RowOutcome(rows, rows[first])
    ELSE "ok"

\* tb.add_row(parents=[id_map[pat_id], id_map[mat_id]], metadata=metadata_dict)
AddedRows(rows) ==
    [i \in 1..Len(rows) |->
        [parents |-> <<IdMap(rows, rows[i].fid, rows[i].pat),
                       IdMap(rows, rows[i].fid, rows[i].mat)>>,
         metadata |-> [plink_fid |-> rows[i].fid, plink_iid |-> rows[i].iid,
                       sex |-> IntOfSex(rows[i].sex)]]]

\* tc.sort() is tskit's, not this repository's. It either leaves the
\* individual table as it is or puts every parent before its children and
\* renumbers the parent references, depending on the tskit installed; a
\* table it cannot order (an individual among its own ancestors) is left as
\* it is or refused. order[k] is the old row put at place k.
SortOrders(table) ==
    {order \in Permutations(1..Len(table)) :
        \A k \in 1..Len(table) : \A s \in 1..2 :
            LET p == table[order[k]].parents[s] IN
            p >= 0 => \E m \in 1..(k - 1) : order[m] = p + 1}

Reordered(table, order) ==
    [k \in 1..Len(table) |->
        [table[order[k]] EXCEPT !.parents =
            [s \in 1..2 |->
                IF table[order[k]].parents[s] < 0 THEN table[order[k]].parents[s]
                ELSE (CHOOSE m \in 1..Len(table) :
                          order[m] = table[order[k]].parents[s] + 1) - 1]]]

Sorted(table) ==
    {[result |-> "ok", tb |-> table]}
    \cup {[result |-> "ok", tb |-> Reordered(table, order)] : order \in SortOrders(table)}
    \cup (IF SortOrders(table) = {} THEN {[result |-> "LibraryError", tb |-> <<>>]} ELSE {})

FamInit ==
    /\ \E n \in 1..MaxFamRows : fam_file \in [1..n -> FamRows]
    /\ tb = <<>>
    /\ fam_result = "none"

\* parse_fam(fam_file)
ParseFam ==
    /\ fam_result = "none"
    /\ IF LoopsOutcome(fam_file) # "ok"
       THEN fam_result' = LoopsOutcome(fam_file) /\ tb' = <<>>
       ELSE \E out \in Sorted(AddedRows(fam_file)) :
                fam_result' = out.result /\ tb' = out.tb
    /\ UNCHANGED fam_file
    /\ UNCHANGED <<simVars, gtVars, pedVars, ioVars>>

FamNext == ParseFam

\* ================================================================ sim_pedigree
\* Progeny counting from 1.
ProgenyFromOne(inds, N) == [k \in 1..N |-> Len(inds) + k]

\* progeny = len(tables.individuals) + np.arange(N)
Progeny(inds, N) == [k \in 1..N |-> Len(inds) + (k - 1)]

\* FlagsValue with the comparison time >= 0.
FlagsValueNever(tm) == IF tm >= 0 THEN 0 ELSE NODE_IS_SAMPLE

\* flags_value = 0 if time > 0 else tskit.NODE_IS_SAMPLE
FlagsValue(tm) == IF tm > 0 THEN 0 ELSE NODE_IS_SAMPLE

\* node_individual[0::2] = progeny; node_individual[1::2] = progeny
NodeIndividual(progeny) ==
    [k \in 1..(2 * Len(progeny)) |-> progeny[((k - 1) \div 2) + 1]]

\* tables.individuals.append_columns(flags=zeros, parents=parents.reshape(2N),
\*                                   parents_offset=arange(N + 1) * 2)
IndividualRows(chosen) ==
    [k \in 1..Len(chosen) |-> [flags |-> 0, parents |-> chosen[k]]]

\* tables.nodes.append_columns(flags, time, population, individual)
NodeRows(progeny, tm) ==
    [k \in 1..(2 * Len(progeny)) |->
        [flags |-> FlagsValue(tm), time |-> tm, population |-> 0,
         individual |-> NodeIndividual(progeny)[k]]]

\* population = progeny
NextPopulation(progeny) == progeny

SimInit ==
    /\ population_size \in 1..MaxRows
    /\ end_time \in 0..(MaxRows - 1)
    /\ (end_time + 1) * population_size <= MaxRows
    /\ individuals = <<>>
    /\ nodes = <<>>
    /\ population = <<NULL>>
    /\ loop_time = end_time
    /\ sim_pc = "loop"

\* One iteration of "for time in reversed(range(end_time + 1))".
\* rng.choice(population, (N, 2)) draws every entry from population, with
\* replacement.
Generation ==
    /\ sim_pc = "loop"
    /\ loop_time >= 0
    /\ \E chosen \in [1..population_size -> [1..2 -> Range(population)]] :
         LET progeny == Progeny(individuals, population_size) IN
         /\ individuals' = individuals \o IndividualRows(chosen)
         /\ nodes' = nodes \o NodeRows(progeny, loop_time)
         /\ population' = NextPopulation(progeny)
    /\ loop_time' = loop_time - 1
    /\ UNCHANGED <<population_size, end_time, sim_pc>>
    /\ UNCHANGED <<gtVars, pedVars, ioVars, famVars>>

\* The range is exhausted: return tables.
SimReturn ==
    /\ sim_pc = "loop"
    /\ loop_time < 0
    /\ sim_pc' = "done"
    /\ UNCHANGED <<population_size, end_time, individuals, nodes, population, loop_time>>
    /\ UNCHANGED <<gtVars, pedVars, ioVars, famVars>>

SimNext == Generation \/ SimReturn

\* ============================================================ specifications
\* Each specification runs one part of the program; the variables of the
\* other parts keep these values.
SimIdle ==
    /\ population_size = 0
    /\ end_time = 0
    /\ individuals = <<>>
    /\ nodes = <<>>
    /\ population = <<>>
    /\ loop_time = 0
    /\ sim_pc = "idle"

GtIdle ==
    /\ parents = <<>>
    /\ time = <<>>
    /\ climber_indices = {}
    /\ t = 0
    /\ gt_pc = "idle"

PedIdle ==
    /\ args = None
    /\ self = None
    /\ result = "idle"

IoIdle ==
    /\ npy_file = None
    /\ txt_file = None
    /\ loaded = None

FamIdle ==
    /\ fam_file = <<>>
    /\ tb = <<>>
    /\ fam_result = "idle"

InitSim == SimInit /\ GtIdle /\ PedIdle /\ IoIdle /\ FamIdle
SpecSim == InitSim /\ [][SimNext]_vars

InitTimes == GtInit(MaxInd) /\ SimIdle /\ PedIdle /\ IoIdle /\ FamIdle
SpecTimes == InitTimes /\ [][GtNext]_vars

\* The interpreter runs the loop to its end: a step that can be taken is taken.
InitTimesFair == GtInit(MaxFairInd) /\ SimIdle /\ PedIdle /\ IoIdle /\ FamIdle
FairSpecTimes == InitTimesFair /\ [][GtNext]_vars /\ WF_vars(GtNext)

InitCtor == CtorInit /\ SimIdle /\ GtIdle /\ IoIdle /\ FamIdle
SpecCtor == InitCtor /\ [][CtorNext]_vars

InitSamples == SamplesInit /\ SimIdle /\ GtIdle /\ IoIdle /\ FamIdle
SpecSamples == InitSamples /\ [][SamplesNext]_vars

InitIO == IoInit /\ SimIdle /\ GtIdle /\ FamIdle
SpecIO == InitIO /\ [][IoNext]_vars

InitFam == FamInit /\ SimIdle /\ GtIdle /\ PedIdle /\ IoIdle
SpecFam == InitFam /\ [][FamNext]_vars

\* ==================================================================== claims
\* C4: a completed sim_pedigree run has appended (E+1)*N individual rows and
\* 2*(E+1)*N node rows; a node row is flagged as a sample exactly when its
\* time is 0; the first N individual rows have both parents -1.
C4_CompletedRun ==
    sim_pc = "done" =>
        /\ Len(individuals) = (end_time + 1) * population_size
        /\ Len(nodes) = 2 * (end_time + 1) * population_size
        /\ \A k \in 1..Len(nodes) :
              (nodes[k].flags = NODE_IS_SAMPLE) <=> (nodes[k].time = 0)
        /\ \A r \in 1..population_size : individuals[r].parents = <<NULL, NULL>>

C4_Witness == sim_pc = "done" /\ end_time >= 1 /\ population_size >= 2

\* C9: at every point of a sim_pedigree run whole generations have been
\* appended in the order of times E, E-1, ...; both parents of an individual
\* of a later generation are rows of the generation just before it; node
\* rows 2r and 2r+1 belong to individual r and carry its generation's time.
C9_GenerationOrder ==
    sim_pc \in {"loop", "done"} =>
        /\ Len(individuals) = (end_time - loop_time) * population_size
        /\ Len(nodes) = 2 * Len(individuals)
        /\ \A r \in 0..(Len(individuals) - 1) :
              LET g == r \div population_size
                  tm == end_time - g
              IN  /\ nodes[2 * r + 1].individual = r
                  /\ nodes[2 * r + 2].individual = r
                  /\ nodes[2 * r + 1].time = tm
                  /\ nodes[2 * r + 2].time = tm
                  /\ g >= 1 => \A k \in 1..2 :
                        LET p == individuals[r + 1].parents[k] IN
                        p >= 0 /\ p \div population_size = g - 1

C9_Witness ==
    /\ sim_pc = "loop"
    /\ loop_time >= 0
    /\ population_size >= 2
    /\ Len(individuals) >= 2 * population_size
    /\ \E r \in (population_size + 1)..Len(individuals) :
         individuals[r].parents[1] # individuals[r].parents[2]

\* C1: on an acyclic parent matrix get_times returns, for every individual,
\* the length of the longest path from a proband up to it.
C1_LongestPath ==
    (gt_pc = "done" /\ ~HasCycle(parents)) =>
        \A i \in 0..(Len(parents) - 1) : time[i + 1] = MaxOf(PathLengths(parents, i))

\* An ancestor reached by paths of different lengths has the longest one.
C1_Witness ==
    /\ gt_pc = "done"
    /\ ~HasCycle(parents)
    /\ \E i \in 0..(Len(parents) - 1) :
         /\ Cardinality(PathLengths(parents, i)) >= 2
         /\ time[i + 1] = MaxOf(PathLengths(parents, i))

\* C7 as claimed: the climb loop exits on every acyclic parent matrix and
\* never exits on a parent matrix with a self-parent or any other cycle.
C7_Original ==
    /\ [](HasCycle(parents) => gt_pc = "while")
    /\ (~HasCycle(parents)) ~> (gt_pc # "while")

\* C7 as amended: the climb loop exits unless a cycle lies at or above a
\* proband; with such a cycle the frontier is never empty, and a cycle no
\* proband reaches (a lone self-parent) does not keep the loop from exiting.
C7_Amended ==
    /\ [](CycleAboveProband(parents) =>
            (gt_pc = "while" /\ Cardinality(climber_indices) > 0))
    /\ []((~CycleAboveProband(parents) /\ Cardinality(climber_indices) > 0) =>
            t < Len(parents))
    /\ (~CycleAboveProband(parents)) ~> (gt_pc # "while")

C7_Witness == gt_pc = "done" /\ HasCycle(parents) /\ t >= 1

\* C2 as claimed: a Pedigree that construction accepts has
\* time[i] < time[parents[i][k]] on every real parent edge.
C2_TimeOrderEnforced ==
    result = "ok" =>
        \A i \in 1..Len(Get(self).parents) : \A k \in 1..2 :
            LET p == Get(self).parents[i][k] IN
            p >= 0 => Get(self).time[i] < Get(self).time[p + 1]

\* C6 as claimed: a Pedigree that construction accepts has identifiers that
\* are all positive and all different.
C6_IdentifiersValid ==
    result = "ok" =>
        LET ind == Get(self).individual IN
        /\ \A i \in 1..Len(ind) : ind[i] > 0
        /\ \A i \in 1..Len(ind) : \A j \in 1..Len(ind) : i # j => ind[i] # ind[j]

\* The Pedigree read back has the individual, parents and time vectors of
\* the Pedigree saved.
SameVectors ==
    /\ ~IsNone(loaded)
    /\ Get(loaded).individual = Get(self).individual
    /\ Get(loaded).parents = Get(self).parents
    /\ Get(loaded).time = Get(self).time

\* C3 as claimed: every valid Pedigree is saved by save_npy and by save_txt,
\* and read_npy and read_txt give back a Pedigree with the same individual,
\* parents and time vectors.
C3_RoundTrip ==
    /\ args.op \in {"save_npy", "save_txt"} => result = "ok"
    /\ (args.op = "read_npy" \/ (args.op = "read_txt" /\ IsNone(args.sex_col))) =>
          (result = "ok" /\ SameVectors)

\* The binary half of C3 alone.
C3_NpyRoundTrip ==
    /\ args.op = "save_npy" => result = "ok"
    /\ args.op = "read_npy" => (result = "ok" /\ SameVectors)

\* The text half of C3 where save_txt does write a file (four individuals)
\* and read_txt is told the time column.
C3_TxtRoundTripOfFour ==
    /\ (args.op = "save_txt" /\ Len(Get(self).individual) = 4) => result = "ok"
    /\ (args.op = "read_txt" /\ IsNone(args.sex_col) /\ ~IsNone(args.time_col)) =>
          (result = "ok" /\ SameVectors)

\* Two rows of the file share family id and individual id.
SameKeyTwice ==
    \E i \in 1..Len(fam_file) : \E j \in 1..Len(fam_file) :
        i # j /\ fam_file[i].fid = fam_file[j].fid /\ fam_file[i].iid = fam_file[j].iid

\* The input positions (0-based) of the rows of family fid with individual
\* id iid.
PositionsOf(fid, iid) ==
    {j - 1 : j \in {x \in 1..Len(fam_file) : fam_file[x].fid = fid /\ fam_file[x].iid = iid}}

\* Some parent field other than "0" names no individual of the row's family.
BrokenReference ==
    \E i \in 1..Len(fam_file) : \E f \in {fam_file[i].pat, fam_file[i].mat} :
        f # "0" /\ PositionsOf(fam_file[i].fid, f) = {}

TablePositionsOf(fid, iid) ==
    {k - 1 : k \in {x \in 1..Len(tb) :
                       tb[x].metadata.plink_fid = fid /\ tb[x].metadata.plink_iid = iid}}

CountCall ==
    /\ result # "none"
    /\ args.probands_only
    /\ ~IsNone(args.num_samples)
    /\ IsNone(args.sample_IDs)

ArgumentFault(a) ==
    \/ a.probands_only # TRUE
    \/ IsNone(a.num_samples) = IsNone(a.sample_IDs)

\* C10 as claimed: every set_samples call that fails leaves is_sample and
\* num_samples as they were before the call.
C10_Original ==
    [][result' # "ok" =>
        /\ Get(self').is_sample = Get(self).is_sample
        /\ Get(self').num_samples = Get(self).num_samples]_vars

\* C10 as amended: a call refused for its arguments alone leaves is_sample
\* and num_samples as they were; a call that fails later (more samples than
\* probands, or the identifier list resolving to another count) leaves
\* is_sample all zero and num_samples at the requested count.
C10_Amended ==
    [][result' # "ok" =>
        IF ArgumentFault(args')
        THEN /\ Get(self').is_sample = Get(self).is_sample
             /\ Get(self').num_samples = Get(self).num_samples
        ELSE /\ Get(self').is_sample =
                   Some([i \in 1..Len(Get(self).individual) |-> 0])
             /\ Get(self').num_samples =
                   IF IsNone(args'.num_samples)
                   THEN Some(Len(Get(args'.sample_IDs)))
                   ELSE args'.num_samples]_vars

C10_Witness ==
    /\ result = "ValueError"
    /\ ~ArgumentFault(args)
    /\ ~IsNone(args.sample_IDs)
    /\ Get(Get(self).num_samples) = 2
    /\ \A i \in 1..Len(Get(self).individual) : Get(Get(self).is_sample)[i] = 0


====
